---- MODULE Spec2Model ----
(***************************************************************************)
(* Mask-tracking max pooling / unpooling operators of                      *)
(* src/src/operator/max_pooling_mask-inl.h and max_unpooling-inl.h.        *)
(*                                                                         *)
(* Tensors are modelled one (batch, channel) lane at a time: the mshadow   *)
(* expressions evaluate a 4D tensor as a 2D matrix of (c*height + y, x)    *)
(* and every row/column computation below is done inside one lane.  A      *)
(* tensor is a record [h, w, v] with v a function on (0..h-1) X (0..w-1).  *)
(* Shapes (TShape) are sequences of dimensions, <<>> being the unknown     *)
(* shape (ndim == 0).                                                      *)
(***************************************************************************)
EXTENDS Integers, Sequences, FiniteSets, TLC

\* Bounds of the model.
MaxCells == 4      \* a data tensor has height * width <= MaxCells
MaxKernel == 2     \* kernel[0], kernel[1] are in 1..MaxKernel
MaxStride == 2     \* stride[0], stride[1] are in 1..MaxStride
MaxPad == 1        \* pad[0], pad[1] are in 0..MaxPad
MaxShapeDim == 5   \* dimensions given to shape inference alone are in 1..MaxShapeDim
MaxShapeKernel == 3 \* kernel and stride given to shape inference alone
MaxRankDim == 2    \* dimensions of the shapes of varying rank are in 1..MaxRankDim
MaxArgs == 3       \* num_args is in 1..MaxArgs
MaxShapeArgs == 2  \* num_args of the shapes of varying rank is in 1..MaxShapeArgs
MaxMaskCells == 2  \* a mask given to unpooling directly has height * width <= MaxMaskCells

\* Element values of data tensors; 0 is also the value of a padding cell.
Values == {-1, 0, 1}

VARIABLES
    pc,         \* position in the call sequence InferShape -> Forward -> Backward
    param,      \* MaxPoolingMaskParam param_ : [kernel, stride, pad]
    uparam,     \* MaxUnpoolingParam param_ : [kernel, stride, pad, unpool_size, num_args]
    in_shape,   \* the shapes handed to InferShape (std::vector<TShape> *in_shape)
    out_shape,  \* the shape InferShape pushed to *out_shape
    data,       \* in_data[kData] of the pooling operator
    pooled,     \* out_data[kOut] of the pooling operator
    mask,       \* out_data[kMask] of the pooling operator, in_data[kPoolMask] of unpooling
    out_grad,   \* out_grad[kOut] handed to a Backward
    in_grad,    \* in_grad[kData] written by a Backward
    uout,       \* out_data[kOut] of the unpooling operator
    mask_grad,  \* in_grad[kPoolMask] of the unpooling operator
    req         \* the std::vector<OpReqType> req handed to the last Backward

vars == <<pc, param, uparam, in_shape, out_shape, data, pooled, mask,
          out_grad, in_grad, uout, mask_grad, req>>

Min(a, b) == IF a < b THEN a ELSE b

\* ------------------------------------------------------------------ tensors

Tensor(h, w, f) == [h |-> h, w |-> w, v |-> f]

Cells(h, w) == (0 .. h - 1) \X (0 .. w - 1)

ConstTensor(h, w, c) == Tensor(h, w, [q \in Cells(h, w) |-> c])

NoTensor == Tensor(0, 0, <<>>)

TensorsOf(h, w, S) == {Tensor(h, w, f) : f \in [Cells(h, w) -> S]}

RECURSIVE SumOver(_, _)
SumOver(f, S) ==
    IF S = {} THEN 0
    ELSE LET q == CHOOSE q \in S : TRUE IN f[q] + SumOver(f, S \ {q})

TensorSum(t) == SumOver(t.v, Cells(t.h, t.w))

\* OpReqType and the Assign macro of operator_common.h, as used at every
\* Assign(out, req, exp) of the two operators.
kNullOp == "kNullOp"
kWriteTo == "kWriteTo"
kAddTo == "kAddTo"
OpReqType == {kNullOp, kWriteTo, kAddTo}

Assign(out, r, exp) ==
    CASE r = kNullOp -> out
      [] r = kWriteTo -> exp
      [] r = kAddTo -> Tensor(out.h, out.w, [q \in Cells(out.h, out.w) |-> out.v[q] + exp.v[q]])

\* pad(src, pad_y, pad_x): the source surrounded by zero cells.
Pad(src, pad_y, pad_x) ==
    Tensor(src.h + 2 * pad_y, src.w + 2 * pad_x,
           [q \in Cells(src.h + 2 * pad_y, src.w + 2 * pad_x) |->
               IF q[1] < pad_y \/ q[2] < pad_x THEN 0
               ELSE IF q[1] - pad_y < src.h /\ q[2] - pad_x < src.w
                    THEN src.v[<<q[1] - pad_y, q[2] - pad_x>>]
                    ELSE 0])

\* crop(src, shape, start_y, start_x): the window of src of the given shape.
Crop(src, h, w, start_y, start_x) ==
    Tensor(h, w, [q \in Cells(h, w) |-> src.v[<<q[1] + start_y, q[2] + start_x>>]])

\* ------------------------------------------------- mshadow window expressions

\* The window of output cell (py, px), clipped to the source as PoolingExp::Eval
\* clips it (y_end = min(y_start + ksize_y, src_height)), in the row-major
\* order of its two nested loops.
WinRows(src_h, py, ksize_y, kstride_y) ==
    Min(py * kstride_y + ksize_y, src_h) - py * kstride_y

WinCols(src_w, px, ksize_x, kstride_x) ==
    Min(px * kstride_x + ksize_x, src_w) - px * kstride_x

WinLen(src, q, ksize_y, ksize_x, kstride_y, kstride_x) ==
    LET nr == WinRows(src.h, q[1], ksize_y, kstride_y)
        nc == WinCols(src.w, q[2], ksize_x, kstride_x)
    IN  IF nr <= 0 \/ nc <= 0 THEN 0 ELSE nr * nc

\* The i-th (1-based) position the loops visit.
WinPos(src, q, i, ksize_x, kstride_y, kstride_x) ==
    LET nc == WinCols(src.w, q[2], ksize_x, kstride_x)
    IN  <<(q[1] * kstride_y) + ((i - 1) \div nc), (q[2] * kstride_x) + ((i - 1) % nc)>>

\* red::maximum: SetInitValue is the least value of the type (has = FALSE
\* stands for it: every element is greater), Reduce keeps the larger.
RECURSIVE PoolReduce(_, _, _, _, _, _, _, _, _)
PoolReduce(src, q, i, n, ksize_x, kstride_y, kstride_x, has, res) ==
    IF i > n THEN res
    ELSE LET v == src.v[WinPos(src, q, i, ksize_x, kstride_y, kstride_x)]
         IN  PoolReduce(src, q, i + 1, n, ksize_x, kstride_y, kstride_x, TRUE,
                        IF ~has \/ v > res THEN v ELSE res)

\* The CHECK of PoolingExp's constructor, "kernel must be smaller than
\* image": building the expression pool<Reducer>(src, ...) aborts unless the
\* kernel fits the source on both axes.
PoolKernelFits(src, ksize_y, ksize_x) == src.w >= ksize_x /\ src.h >= ksize_y

\* pool<Reducer>(src, pshape, ksize_y, ksize_x, kstride_y, kstride_x), once its
\* constructor's CHECK (PoolKernelFits) has passed.
Pool(src, ph, pw, ksize_y, ksize_x, kstride_y, kstride_x) ==
    Tensor(ph, pw,
           [q \in Cells(ph, pw) |->
               PoolReduce(src, q, 1, WinLen(src, q, ksize_y, ksize_x, kstride_y, kstride_x),
                          ksize_x, kstride_y, kstride_x, FALSE, 0)])

\* The scan of max_pool_mask: the position of the first element, in the
\* loops' order, that is greater than everything before it.
RECURSIVE MaskScan(_, _, _, _, _, _, _, _, _)
MaskScan(src, q, i, n, ksize_x, kstride, has, res, at) ==
    IF i > n THEN at
    ELSE LET p == WinPos(src, q, i, ksize_x, kstride, kstride)
             v == src.v[p]
             take == ~has \/ v > res
         IN  MaskScan(src, q, i + 1, n, ksize_x, kstride, TRUE,
                      IF take THEN v ELSE res, IF take THEN p ELSE at)

\* The mask entry for a selected position: its flattened offset inside the
\* kernel window, relative to the window's top-left corner.
MaskEncode(q, p, ksize_x, kstride) ==
    ((p[1] - (q[1] * kstride)) * ksize_x) + (p[2] - (q[2] * kstride))

\* The position a mask entry names for window q.
MaskDecode(q, m, ksize_x, kstride) ==
    <<(q[1] * kstride) + (m \div ksize_x), (q[2] * kstride) + (m % ksize_x)>>

\* max_pool_mask<Reducer>(src, pshape, ksize_y, ksize_x, kstride)
MaxPoolMask(src, ph, pw, ksize_y, ksize_x, kstride) ==
    Tensor(ph, pw,
           [q \in Cells(ph, pw) |->
               MaskEncode(q,
                          MaskScan(src, q, 1,
                                   WinLen(src, q, ksize_y, ksize_x, kstride, kstride),
                                   ksize_x, kstride, FALSE, 0,
                                   <<q[1] * kstride, q[2] * kstride>>),
                          ksize_x, kstride)])

\* red::maximum::PartialGrad(src, result)
PartialGrad(vsrc, vpooled) == IF vsrc = vpooled THEN 1 ELSE 0

\* The pooled cells UnPoolingExp::Eval visits for source cell (y, x).
UnpoolRange(y, ksize, kstride, plen) ==
    LET lo == IF y < ksize THEN 0 ELSE (y - ksize + kstride) \div kstride
        hi == Min((y + kstride) \div kstride, plen)
    IN  lo .. hi - 1

\* unpool<Reducer>(data_src, data_pooled, grad_pooled, ksize_y, ksize_x,
\*                 kstride_y, kstride_x): the gradient of pooling at every
\* cell of data_src.
Unpool(data_src, data_pooled, grad_pooled, ksize_y, ksize_x, kstride_y, kstride_x) ==
    Tensor(data_src.h, data_src.w,
           [q \in Cells(data_src.h, data_src.w) |->
               LET win == UnpoolRange(q[1], ksize_y, kstride_y, data_pooled.h)
                          \X UnpoolRange(q[2], ksize_x, kstride_x, data_pooled.w)
               IN  SumOver([c \in win |->
                               PartialGrad(data_src.v[q], data_pooled.v[c])
                               * grad_pooled.v[c]],
                           win)])

\* ------------------------------------------------------------ TShape, index_t

\* dshape[j] of the source (0-based) on a sequence.
Dim(shape, j) == shape[j + 1]

\* index_t is unsigned: a difference that is below zero wraps around to a value
\* above every dimension of the model.  A negative number stands for such a
\* wrapped value; std::min never selects it against a value that did not
\* wrap, and "> 0" holds of it.
UMin(a, b) ==
    IF a < 0 THEN (IF b < 0 THEN Min(a, b) ELSE b)
    ELSE IF b < 0 THEN a ELSE Min(a, b)

UPositive(a) == a # 0

\* ------------------------------------------------------------ MaxPoolingMask

\* oshape[2], oshape[3] of MaxPoolingMaskProp::InferShape.
PoolOutDim(in_dim, kernel, stride, pad) ==
    (UMin(in_dim + 2 * pad - kernel + stride - 1, in_dim + 2 * pad - 1) \div stride) + 1

\* MaxPoolingMaskProp::InferShape: "error" is a failed CHECK, "unknown" is
\* return false, "ok" is return true with out_shape filled.
PoolInferShape(shapes, p) ==
    IF Len(shapes) # 1 THEN [status |-> "error", out |-> <<>>]
    ELSE LET dshape == shapes[1] IN
         IF Len(dshape) # 4 THEN [status |-> "error", out |-> <<>>]
         ELSE LET o2 == PoolOutDim(Dim(dshape, 2), p.kernel[1], p.stride[1], p.pad[1])
                  o3 == PoolOutDim(Dim(dshape, 3), p.kernel[2], p.stride[2], p.pad[2])
                  oshape == <<Dim(dshape, 0), Dim(dshape, 1), o2, o3>>
              IN  IF UPositive(o2) /\ UPositive(o3)
                  THEN [status |-> "ok", out |-> <<oshape, oshape>>]
                  ELSE [status |-> "error", out |-> <<>>]

\* The CHECK_EQ of the stride MaxPoolingMaskOp::Forward makes before it
\* assigns out and mask.
PoolForwardChecks(p) == p.stride[1] = p.stride[2]

\* Whether the expression assigned to out in MaxPoolingMaskOp::Forward can be
\* built: pool's own CHECK on the padded data.
ForwardOutBuilds(d, p) ==
    PoolKernelFits(Pad(d, p.pad[1], p.pad[2]), p.kernel[1], p.kernel[2])

\* The expression assigned to out in MaxPoolingMaskOp::Forward.
ForwardOut(d, p, oh, ow) ==
    Pool(Pad(d, p.pad[1], p.pad[2]), oh, ow,
         p.kernel[1], p.kernel[2], p.stride[1], p.stride[2])

\* The expression assigned to mask in MaxPoolingMaskOp::Forward.
ForwardMask(d, p, oh, ow) ==
    MaxPoolMask(Pad(d, p.pad[1], p.pad[2]), oh, ow,
                p.kernel[1], p.kernel[2], p.stride[1])

\* BackwardGrad with crop taking its window at the origin of the padded frame.
BackwardGradCropAtOrigin(d, output_data, grad, p) ==
    Crop(Unpool(Pad(d, p.pad[1], p.pad[2]), Pad(output_data, 0, 0), Pad(grad, 0, 0),
                p.kernel[1], p.kernel[2], p.stride[1], p.stride[2]),
         d.h, d.w, 0, 0)

\* The expression assigned to input_grad in MaxPoolingMaskOp::Backward.
BackwardGrad(d, output_data, grad, p) ==
    Crop(Unpool(Pad(d, p.pad[1], p.pad[2]), Pad(output_data, 0, 0), Pad(grad, 0, 0),
                p.kernel[1], p.kernel[2], p.stride[1], p.stride[2]),
         d.h, d.w, p.pad[1], p.pad[2])

\* The configurations and inputs the pooling operator is run on.
Pairs(S) == S \X S

PoolParams(strides) ==
    [kernel : Pairs(1 .. MaxKernel), stride : strides, pad : Pairs(0 .. MaxPad)]

UniformStrides == {<<s, s>> : s \in 1 .. MaxStride}

DataShapes == {q \in Pairs(1 .. MaxCells) : q[1] * q[2] <= MaxCells}

DataTensors == UNION {TensorsOf(q[1], q[2], Values) : q \in DataShapes}

\* The upstream gradients handed to a Backward: the unit gradient at one cell,
\* and a gradient with a distinct positive value at every cell.
OneHot(h, w, c) == Tensor(h, w, [q \in Cells(h, w) |-> IF q = c THEN 1 ELSE 0])

Ramp(h, w) == Tensor(h, w, [q \in Cells(h, w) |-> (q[1] * w) + q[2] + 1])

Grads(h, w) == {OneHot(h, w, c) : c \in Cells(h, w)} \cup {Ramp(h, w)}

\* What a gradient buffer holds before its first Backward.
GradInit == {0, 1}

NoUnpool ==
    /\ uparam = [kernel |-> <<1, 1>>, stride |-> <<1, 1>>, pad |-> <<0, 0>>,
                 unpool_size |-> <<0, 0>>, num_args |-> 2]
    /\ uout = NoTensor
    /\ mask_grad = NoTensor

PoolInit(strides, stale) ==
    /\ pc = "start"
    /\ param \in PoolParams(strides)
    /\ data \in DataTensors
    /\ in_shape = <<<<1, 1, data.h, data.w>>>>
    /\ out_shape = <<>>
    /\ pooled = NoTensor
    /\ mask = NoTensor
    /\ out_grad = NoTensor
    /\ in_grad \in {ConstTensor(data.h, data.w, c) : c \in stale}
    /\ req = <<>>
    /\ NoUnpool

\* MaxPoolingMaskProp::InferShape on the data's shape.
PoolInferShapeStep ==
    /\ pc = "start"
    /\ LET r == PoolInferShape(in_shape, param) IN
       /\ pc' = IF r.status = "ok" THEN "planned" ELSE "shape_error"
       /\ out_shape' = r.out
    /\ UNCHANGED <<param, uparam, in_shape, data, pooled, mask, out_grad, in_grad,
                   uout, mask_grad, req>>

\* MaxPoolingMaskOp::Forward, its outputs allocated with the inferred shapes
\* and requested with kWriteTo.  It aborts, with nothing written, at its
\* CHECK_EQ of the stride or at the CHECK of the first expression it builds.
PoolForwardStep ==
    /\ pc = "planned"
    /\ LET oh == Dim(out_shape[1], 2)
           ow == Dim(out_shape[1], 3)
       IN  IF ~PoolForwardChecks(param) \/ ~ForwardOutBuilds(data, param)
           THEN /\ pc' = "fwd_abort"
                /\ UNCHANGED <<pooled, mask>>
           ELSE /\ pc' = "forwarded"
                /\ pooled' = Assign(ConstTensor(oh, ow, 0), kWriteTo,
                                    ForwardOut(data, param, oh, ow))
                /\ mask' = Assign(ConstTensor(oh, ow, 0), kWriteTo,
                                  ForwardMask(data, param, oh, ow))
    /\ UNCHANGED <<param, uparam, in_shape, out_shape, data, out_grad, in_grad,
                   uout, mask_grad, req>>

\* MaxPoolingMaskOp::Backward on an upstream gradient of the pooled shape.
PoolBackwardStep ==
    /\ pc = "forwarded"
    /\ \E g \in Grads(pooled.h, pooled.w), r \in OpReqType :
          /\ out_grad' = g
          /\ req' = <<r>>
          /\ in_grad' = Assign(in_grad, r, BackwardGrad(data, pooled, g, param))
    /\ pc' = "done"
    /\ UNCHANGED <<param, uparam, in_shape, out_shape, data, pooled, mask,
                   uout, mask_grad>>

\* Pooling alone, planned and run forward, on every window configuration of
\* uniform stride.
InitPoolFwd == PoolInit(UniformStrides, {0})

NextPoolFwd == PoolInferShapeStep \/ PoolForwardStep

SpecPoolFwd == InitPoolFwd /\ [][NextPoolFwd]_vars

\* Pooling planned, run forward and backward.
InitPool == PoolInit(UniformStrides, GradInit)

NextPool == PoolInferShapeStep \/ PoolForwardStep \/ PoolBackwardStep

SpecPool == InitPool /\ [][NextPool]_vars

\* -------------------------------------------------------------- MaxUnpooling

\* The cells of an h x w tensor in row-major order: the i-th (1-based) cell.
CellAt(w, i) == <<(i - 1) \div w, (i - 1) % w>>

\* The value max_unpool_forward leaves at output cell x: the data of the
\* last window, in row-major order of the windows, whose mask entry names x,
\* and 0 when none does.
RECURSIVE ScatterScan(_, _, _, _, _, _, _, _)
ScatterScan(msk, d, x, i, n, ksize_x, kstride, cur) ==
    IF i > n THEN cur
    ELSE LET q == CellAt(msk.w, i)
         IN  ScatterScan(msk, d, x, i + 1, n, ksize_x, kstride,
                         IF MaskDecode(q, msk.v[q], ksize_x, kstride) = x
                         THEN d.v[q] ELSE cur)

\* max_unpool_forward(mask, data, out_shape, ksize_y, ksize_x, kstride)
MaxUnpoolForward(msk, d, oh, ow, ksize_y, ksize_x, kstride) ==
    Tensor(oh, ow,
           [x \in Cells(oh, ow) |->
               ScatterScan(msk, d, x, 1, msk.h * msk.w, ksize_x, kstride, 0)])

\* max_unpool_backward(mask, grad, mask_shape, ksize_y, ksize_x, kstride): the
\* upstream gradient at the position each mask entry names.  oob is what a
\* read outside grad returns.
MaxUnpoolBackward(msk, grad, mh, mw, ksize_y, ksize_x, kstride, oob) ==
    Tensor(mh, mw,
           [q \in Cells(mh, mw) |->
               LET x == MaskDecode(q, msk.v[q], ksize_x, kstride)
               IN  IF x \in Cells(grad.h, grad.w) THEN grad.v[x] ELSE oob])

\* mask_backward<Reducer>(mask): the zero tensor of the mask's shape.
MaskBackward(msk) == ConstTensor(msk.h, msk.w, 0)

\* tmp[j] of MaxUnpoolingProp::InferShape: TShape::operator[] does not check
\* j against ndim, and past the end it returns what the storage holds (stale).
DimOrStale(shape, j, stale) == IF j < Len(shape) THEN Dim(shape, j) ELSE stale

\* The loop over the arguments after the first, from argument i (0-based) on:
\* "unknown" at the first shape of ndim 0, "error" at the first failed
\* CHECK_EQ, "ok" when the loop ends.
RECURSIVE UnpoolArgsCheck(_, _, _, _)
UnpoolArgsCheck(shapes, i, num_args, stale) ==
    IF i >= num_args THEN "ok"
    ELSE LET dshape == shapes[1]
             tmp == shapes[i + 1]
         IN  IF Len(tmp) = 0 THEN "unknown"
             ELSE IF \E j \in 0 .. Len(dshape) - 1 :
                        Dim(dshape, j) # DimOrStale(tmp, j, stale)
                  THEN "error"
                  ELSE UnpoolArgsCheck(shapes, i + 1, num_args, stale)

\* UnpoolOutDim counting in_dim strides instead of in_dim - 1.
UnpoolOutDimOffByOne(in_dim, kernel, stride, pad) ==
    (in_dim * stride) + kernel - (2 * pad)

\* oshape[2], oshape[3] of MaxUnpoolingProp::InferShape when unpool_size is
\* not given.
UnpoolOutDim(in_dim, kernel, stride, pad) ==
    ((in_dim - 1) * stride) + kernel - (2 * pad)

\* MaxUnpoolingProp::InferShape.
UnpoolInferShape(shapes, p, stale) ==
    IF Len(shapes) # p.num_args THEN [status |-> "error", out |-> <<>>]
    ELSE LET dshape == shapes[1] IN
         IF Len(dshape) # 4 THEN [status |-> "error", out |-> <<>>]
         ELSE LET args == UnpoolArgsCheck(shapes, 1, p.num_args, stale) IN
              IF args # "ok" THEN [status |-> args, out |-> <<>>]
              ELSE LET derive == p.unpool_size[1] <= 0 \/ p.unpool_size[2] <= 0
                       o2 == IF derive
                             THEN UnpoolOutDim(Dim(dshape, 2), p.kernel[1],
                                               p.stride[1], p.pad[1])
                             ELSE p.unpool_size[1]
                       o3 == IF derive
                             THEN UnpoolOutDim(Dim(dshape, 3), p.kernel[2],
                                               p.stride[2], p.pad[2])
                             ELSE p.unpool_size[2]
                       oshape == <<Dim(dshape, 0), Dim(dshape, 1), o2, o3>>
                   IN  IF UPositive(o2) /\ UPositive(o3)
                       THEN [status |-> "ok", out |-> <<oshape>>]
                       ELSE [status |-> "error", out |-> <<>>]

\* UnpoolForwardOut with its two tensor arguments exchanged.
UnpoolForwardOutArgsSwapped(msk, d, p, oh, ow) ==
    MaxUnpoolForward(d, msk, oh, ow, p.kernel[1], p.kernel[2], p.stride[1])

\* The expression assigned to out in MaxUnpoolingOp::Forward.
UnpoolForwardOut(msk, d, p, oh, ow) ==
    MaxUnpoolForward(msk, d, oh, ow, p.kernel[1], p.kernel[2], p.stride[1])

\* UnpoolBackwardGrad with the two kernel extents exchanged.
UnpoolBackwardGradKernelSwapped(msk, grad, p, oob) ==
    MaxUnpoolBackward(msk, grad, msk.h, msk.w, p.kernel[2], p.kernel[1],
                      p.stride[1], oob)

\* The expression assigned to input_grad in MaxUnpoolingOp::Backward.
UnpoolBackwardGrad(msk, grad, p, oob) ==
    MaxUnpoolBackward(msk, grad, msk.h, msk.w, p.kernel[1], p.kernel[2],
                      p.stride[1], oob)

\* UnpoolForwardChecks without the two checks of pad.
UnpoolForwardChecksNoPad(p) ==
    /\ p.num_args = 2
    /\ p.stride[1] = p.stride[2]

\* The CHECK_EQs MaxUnpoolingOp::Forward makes before it assigns out.
UnpoolForwardChecks(p) ==
    /\ p.num_args = 2
    /\ p.stride[1] = p.stride[2]
    /\ p.pad[1] = 0
    /\ p.pad[2] = 0

\* The request MaxUnpoolingOp::Backward passes to the Assign of mask_grad.
MaskGradReq(r) == r[1]

\* What a read past the end of a TShape finds: some dimension written there
\* before.
StaleDims == 1 .. MaxRankDim

\* MaxUnpoolingProp::InferShape on in_shape.
UnpoolInferShapeStep ==
    /\ pc = "u_start"
    /\ \E stale \in StaleDims :
          LET r == UnpoolInferShape(in_shape, uparam, stale) IN
          /\ pc' = CASE r.status = "ok" -> "u_planned"
                     [] r.status = "unknown" -> "u_shape_unknown"
                     [] OTHER -> "u_shape_error"
          /\ out_shape' = r.out
    /\ UNCHANGED <<param, uparam, in_shape, data, pooled, mask, out_grad, in_grad,
                   uout, mask_grad, req>>

\* MaxUnpoolingOp::Forward on in_data = [pooled, mask, ...], one input per
\* declared argument, its output allocated with the inferred shape and
\* requested with kWriteTo.
UnpoolForwardStep ==
    /\ pc = "u_planned"
    /\ LET oh == Dim(out_shape[1], 2)
           ow == Dim(out_shape[1], 3)
       IN  IF ~UnpoolForwardChecks(uparam)
           THEN /\ pc' = "u_fwd_abort"
                /\ UNCHANGED uout
           ELSE /\ pc' = "u_forwarded"
                /\ uout' = Assign(ConstTensor(oh, ow, 0), kWriteTo,
                                  UnpoolForwardOut(mask, pooled, uparam, oh, ow))
    /\ UNCHANGED <<param, uparam, in_shape, out_shape, data, pooled, mask,
                   out_grad, in_grad, mask_grad, req>>

\* MaxUnpoolingOp::Backward on an upstream gradient of the output's shape.
UnpoolBackwardStep ==
    /\ pc = "u_forwarded"
    /\ \E g \in Grads(uout.h, uout.w), r \in OpReqType \X OpReqType, oob \in Values :
          /\ out_grad' = g
          /\ req' = r
          /\ in_grad' = Assign(in_grad, r[1], UnpoolBackwardGrad(mask, g, uparam, oob))
          /\ mask_grad' = Assign(mask_grad, MaskGradReq(r), MaskBackward(mask))
    /\ pc' = "u_done"
    /\ UNCHANGED <<param, uparam, in_shape, out_shape, data, pooled, mask, uout>>

\* The graph edge from the pooling operator to the unpooling operator: the
\* pooled tensor and its mask become in_data[kData] and in_data[kPoolMask].
FeedUnpool ==
    /\ pc = "forwarded"
    /\ pc' = "u_start"
    /\ in_shape' = [i \in 1 .. uparam.num_args |-> <<1, 1, pooled.h, pooled.w>>]
    /\ out_shape' = <<>>
    /\ UNCHANGED <<param, uparam, data, pooled, mask, out_grad, in_grad,
                   uout, mask_grad, req>>

\* The unpool_size values tried for pooled input d: unset, set on one axis
\* only, the size of d, and a size smaller than d.
TargetSizes(d) == {<<0, 0>>, <<0, d.w>>, <<d.h, d.w>>, <<1, 1>>}

\* Pooling without padding followed by unpooling with the same kernel and
\* stride.
RoundTripInit(stale) ==
    /\ pc = "start"
    /\ param \in [kernel : Pairs(1 .. MaxKernel), stride : UniformStrides, pad : {<<0, 0>>}]
    /\ data \in DataTensors
    /\ uparam \in [kernel : {param.kernel}, stride : {param.stride}, pad : {<<0, 0>>},
                   unpool_size : TargetSizes(data), num_args : {2}]
    /\ in_shape = <<<<1, 1, data.h, data.w>>>>
    /\ out_shape = <<>>
    /\ pooled = NoTensor
    /\ mask = NoTensor
    /\ out_grad = NoTensor
    /\ LET r == PoolInferShape(in_shape, param)
           mh == Dim(r.out[1], 2)
           mw == Dim(r.out[1], 3)
       IN  \E c \in stale :
               /\ in_grad = ConstTensor(mh, mw, c)
               /\ mask_grad = ConstTensor(mh, mw, c)
    /\ uout = NoTensor
    /\ req = <<>>

InitRoundTrip == RoundTripInit({0})

NextRoundTrip ==
    \/ PoolInferShapeStep
    \/ PoolForwardStep
    \/ FeedUnpool
    \/ UnpoolInferShapeStep
    \/ UnpoolForwardStep

SpecRoundTrip == InitRoundTrip /\ [][NextRoundTrip]_vars

\* The same, followed by the unpooling operator's Backward.
InitUnpool == RoundTripInit(GradInit)

NextUnpool == NextRoundTrip \/ UnpoolBackwardStep

SpecUnpool == InitUnpool /\ [][NextUnpool]_vars

\* Either operator alone, planned and run forward and backward, on every
\* configuration parameter validation accepts, valid for Forward or not.
ConstTensors == {ConstTensor(q[1], q[2], c) : q \in DataShapes, c \in Values}

UnpoolParams ==
    [kernel : Pairs(1 .. MaxKernel), stride : Pairs(1 .. MaxStride),
     pad : Pairs(0 .. MaxPad), unpool_size : {<<0, 0>>}, num_args : 1 .. MaxArgs]

UnpoolOnlyInit ==
    /\ pc = "u_start"
    /\ uparam \in UnpoolParams
    /\ pooled \in ConstTensors
    /\ mask = ConstTensor(pooled.h, pooled.w, 0)
    /\ in_shape = [i \in 1 .. uparam.num_args |-> <<1, 1, pooled.h, pooled.w>>]
    /\ out_shape = <<>>
    /\ param = [kernel |-> uparam.kernel, stride |-> uparam.stride, pad |-> uparam.pad]
    /\ data = NoTensor
    /\ out_grad = NoTensor
    /\ in_grad = ConstTensor(pooled.h, pooled.w, 0)
    /\ mask_grad = ConstTensor(pooled.h, pooled.w, 0)
    /\ uout = NoTensor
    /\ req = <<>>

InitLifecycle ==
    \/ (PoolInit(Pairs(1 .. MaxStride), {0}) /\ data \in ConstTensors)
    \/ UnpoolOnlyInit

NextLifecycle ==
    \/ PoolInferShapeStep
    \/ PoolForwardStep
    \/ PoolBackwardStep
    \/ UnpoolInferShapeStep
    \/ UnpoolForwardStep
    \/ UnpoolBackwardStep

SpecLifecycle == InitLifecycle /\ [][NextLifecycle]_vars

\* ------------------------------------------------- Backward on shared storage

\* OpReqType::kWriteInplace: the gradient is written to storage it shares with
\* an input, as a declared in-place option allows.  Assign stores it as it
\* stores kWriteTo.
kWriteInplace == "kWriteInplace"

\* MXNET_USE_CUDNN of the build.
Builds == {0, 1}

\* MaxPoolingMaskProp::BackwardInplaceOption: the pairs (input, gradient) that
\* may share storage.
PoolBackwardInplaceOption(cudnn) ==
    IF cudnn = 1 THEN {} ELSE {<<"in_data[kData]", "in_grad[kData]">>}

\* MaxUnpoolingProp::BackwardInplaceOption.
UnpoolBackwardInplaceOption(cudnn) ==
    IF cudnn = 1 THEN {} ELSE {<<"in_data[kData]", "in_grad[kData]">>}

\* The requests an executor may make for in_grad[kData] under an in-place
\* option.
DataGradReqs(option) ==
    OpReqType \cup (IF <<"in_data[kData]", "in_grad[kData]">> \in option
                    THEN {kWriteInplace} ELSE {})

\* The orders in which the cells of the destination are evaluated and stored.
StoreOrders == {"ascending", "descending"}

OrderedCell(w, n, i, order) ==
    IF order = "ascending" THEN CellAt(w, i) ELSE CellAt(w, n + 1 - i)

\* The Assign of input_grad in MaxPoolingMaskOp::Backward when input_grad is
\* the storage of data: the expression is evaluated and stored one cell at a
\* time, and every evaluation reads the storage as the stores before it left
\* it.  buf is that storage from cell i (1-based, in the given order) on.
RECURSIVE BackwardGradInplace(_, _, _, _, _, _)
BackwardGradInplace(buf, output_data, grad, p, i, order) ==
    LET n == buf.h * buf.w IN
    IF i > n THEN buf
    ELSE LET q == OrderedCell(buf.w, n, i, order)
             val == BackwardGrad(buf, output_data, grad, p).v[q]
         IN  BackwardGradInplace(Tensor(buf.h, buf.w, [buf.v EXCEPT ![q] = val]),
                                 output_data, grad, p, i + 1, order)

\* The upstream gradients handed to a Backward on shared storage: the unit
\* gradient at the first cell, and a distinct positive value at every cell.
InplaceGrads(h, w) == {OneHot(h, w, <<0, 0>>), Ramp(h, w)}

\* The executor hands a pooling Backward its upstream gradient and its request,
\* kWriteInplace when it took the in-place option of the build.
PoolGradArrives ==
    /\ pc = "forwarded"
    /\ \E g \in InplaceGrads(pooled.h, pooled.w), cudnn \in Builds :
          \E r \in DataGradReqs(PoolBackwardInplaceOption(cudnn)) :
              /\ out_grad' = g
              /\ req' = <<r>>
    /\ pc' = "b_ready"
    /\ UNCHANGED <<param, uparam, in_shape, out_shape, data, pooled, mask, in_grad,
                   uout, mask_grad>>

\* MaxPoolingMaskOp::Backward on the storage the executor assigned: under
\* kWriteInplace in_grad[kData] and in_data[kData] are one buffer.
PoolBackwardCall ==
    /\ pc = "b_ready"
    /\ IF req[1] = kWriteInplace
       THEN \E order \in StoreOrders :
               LET buf == BackwardGradInplace(data, pooled, out_grad, param, 1, order)
               IN  /\ data' = buf
                   /\ in_grad' = buf
       ELSE /\ in_grad' = Assign(in_grad, req[1],
                                 BackwardGrad(data, pooled, out_grad, param))
            /\ data' = data
    /\ pc' = "done"
    /\ UNCHANGED <<param, uparam, in_shape, out_shape, pooled, mask, out_grad,
                   uout, mask_grad, req>>

\* The executor hands an unpooling Backward its upstream gradient, its two
\* gradient buffers and its requests.
UnpoolGradArrives ==
    /\ pc = "u_forwarded"
    /\ \E g \in InplaceGrads(uout.h, uout.w), cudnn \in Builds, r2 \in OpReqType :
          \E r1 \in DataGradReqs(UnpoolBackwardInplaceOption(cudnn)) :
              /\ out_grad' = g
              /\ req' = <<r1, r2>>
    /\ in_grad' = ConstTensor(pooled.h, pooled.w, 0)
    /\ mask_grad' = ConstTensor(mask.h, mask.w, 0)
    /\ pc' = "ub_ready"
    /\ UNCHANGED <<param, uparam, in_shape, out_shape, data, pooled, mask, uout>>

\* MaxUnpoolingOp::Backward on the storage the executor assigned: under
\* kWriteInplace in_grad[kData] and in_data[kData] (the pooled tensor) are one
\* buffer.  max_unpool_backward reads mask and grad only.
UnpoolBackwardCall ==
    /\ pc = "ub_ready"
    /\ \E oob \in Values :
          LET exp == UnpoolBackwardGrad(mask, out_grad, uparam, oob) IN
          IF req[1] = kWriteInplace
          THEN /\ pooled' = exp
               /\ in_grad' = exp
          ELSE /\ in_grad' = Assign(in_grad, req[1], exp)
               /\ pooled' = pooled
    /\ mask_grad' = Assign(mask_grad,
                           IF MaskGradReq(req) = kWriteInplace THEN kWriteTo
                           ELSE MaskGradReq(req),
                           MaskBackward(mask))
    /\ pc' = "u_done"
    /\ UNCHANGED <<param, uparam, in_shape, out_shape, data, mask, out_grad,
                   uout, req>>

\* Either Backward under every storage assignment its in-place option allows:
\* pooling of a tensor of 0s and 1s, unpooled without padding with the same
\* kernel and stride.
InplaceData == UNION {TensorsOf(q[1], q[2], {0, 1}) : q \in DataShapes}

UniformPads == {<<p, p>> : p \in 0 .. MaxPad}

InitInplace ==
    /\ pc = "start"
    /\ param \in [kernel : Pairs(1 .. MaxKernel), stride : UniformStrides,
                  pad : UniformPads]
    /\ uparam = [kernel |-> param.kernel, stride |-> param.stride, pad |-> <<0, 0>>,
                 unpool_size |-> <<0, 0>>, num_args |-> 2]
    /\ data \in InplaceData
    /\ in_shape = <<<<1, 1, data.h, data.w>>>>
    /\ out_shape = <<>>
    /\ pooled = NoTensor
    /\ mask = NoTensor
    /\ out_grad = NoTensor
    /\ in_grad = ConstTensor(data.h, data.w, 0)
    /\ uout = NoTensor
    /\ mask_grad = NoTensor
    /\ req = <<>>

NextInplace ==
    \/ PoolInferShapeStep
    \/ PoolForwardStep
    \/ PoolGradArrives
    \/ PoolBackwardCall
    \/ FeedUnpool
    \/ UnpoolInferShapeStep
    \/ UnpoolForwardStep
    \/ UnpoolGradArrives
    \/ UnpoolBackwardCall

SpecInplace == InitInplace /\ [][NextInplace]_vars

\* Unpooling alone on any mask whose entries are offsets of the kernel
\* window, with a data tensor of any of the shapes, planned and run forward
\* and backward.
MaskShapes == {q \in Pairs(1 .. MaxMaskCells) : q[1] * q[2] <= MaxMaskCells}

MaskTensors(kernel) ==
    UNION {TensorsOf(q[1], q[2], 0 .. (kernel[1] * kernel[2]) - 1) : q \in MaskShapes}

\* The unpool_size values tried: unset, one cell, and a size above one cell.
GatherTargets == {<<0, 0>>, <<1, 1>>, <<2, 3>>}

InitGather ==
    /\ pc = "u_start"
    /\ uparam \in [kernel : Pairs(1 .. MaxKernel), stride : UniformStrides,
                   pad : {<<0, 0>>}, unpool_size : GatherTargets, num_args : {2}]
    /\ mask \in MaskTensors(uparam.kernel)
    /\ pooled \in {ConstTensor(q[1], q[2], 1) : q \in MaskShapes}
    /\ in_shape = <<<<1, 1, pooled.h, pooled.w>>, <<1, 1, mask.h, mask.w>>>>
    /\ out_shape = <<>>
    /\ param = [kernel |-> uparam.kernel, stride |-> uparam.stride, pad |-> uparam.pad]
    /\ data = NoTensor
    /\ out_grad = NoTensor
    /\ in_grad = NoTensor
    /\ mask_grad = NoTensor
    /\ uout = NoTensor
    /\ req = <<>>

NextGather ==
    \/ UnpoolInferShapeStep
    \/ UnpoolForwardStep
    \/ UnpoolGradArrives
    \/ UnpoolBackwardCall

SpecGather == InitGather /\ [][NextGather]_vars

\* ------------------------------------------------- shape inference on its own

\* The two InferShape functions applied to a shape and to each other's
\* results, with the same kernel, stride and pad.
InitShapeLaw ==
    /\ pc = "s_start"
    /\ in_shape \in {<<<<1, 1, q[1], q[2]>>>> : q \in Pairs(1 .. MaxShapeDim)}
    /\ param \in [kernel : Pairs(1 .. MaxShapeKernel), stride : Pairs(1 .. MaxShapeKernel),
                  pad : Pairs(0 .. MaxPad)]
    /\ uparam = [kernel |-> param.kernel, stride |-> param.stride, pad |-> param.pad,
                 unpool_size |-> <<0, 0>>, num_args |-> 2]
    /\ out_shape = <<>>
    /\ data = NoTensor /\ pooled = NoTensor /\ mask = NoTensor
    /\ out_grad = NoTensor /\ in_grad = NoTensor
    /\ uout = NoTensor /\ mask_grad = NoTensor
    /\ req = <<>>

ShapeFrame == UNCHANGED <<param, uparam, in_shape, data, pooled, mask, out_grad,
                          in_grad, uout, mask_grad, req>>

\* MaxPoolingMaskProp::InferShape on the shape.
ShapePoolStep ==
    /\ pc = "s_start"
    /\ LET r == PoolInferShape(in_shape, param) IN
       /\ pc' = IF r.status = "ok" THEN "s_pooled" ELSE "s_pool_error"
       /\ out_shape' = r.out
    /\ ShapeFrame

\* MaxUnpoolingProp::InferShape on the shape, given as data and as mask.
ShapeUnpoolStep ==
    /\ pc = "s_start"
    /\ \E stale \in StaleDims :
          LET r == UnpoolInferShape(<<in_shape[1], in_shape[1]>>, uparam, stale) IN
          /\ pc' = IF r.status = "ok" THEN "s_unpooled" ELSE "s_unpool_error"
          /\ out_shape' = r.out
    /\ ShapeFrame

\* MaxUnpoolingProp::InferShape on the two shapes pooling inferred.
ShapePoolUnpoolStep ==
    /\ pc = "s_pooled"
    /\ \E stale \in StaleDims :
          LET r == UnpoolInferShape(out_shape, uparam, stale) IN
          /\ pc' = IF r.status = "ok" THEN "s_pool_unpool" ELSE "s_pool_unpool_error"
          /\ out_shape' = r.out
    /\ ShapeFrame

\* MaxPoolingMaskProp::InferShape on the shape unpooling inferred.  A derived
\* dimension that wrapped around, (h - 1) * stride + kernel - 2 * pad below
\* zero, wraps back in both operands of the min: they are h * stride - 1 and
\* (h - 1) * stride + kernel - 1.
ShapeUnpoolPoolStep ==
    /\ pc = "s_unpooled"
    /\ LET r == PoolInferShape(out_shape, param) IN
       /\ pc' = IF r.status = "ok" THEN "s_unpool_pool" ELSE "s_unpool_pool_error"
       /\ out_shape' = r.out
    /\ ShapeFrame

NextShapeLaw ==
    \/ ShapePoolStep
    \/ ShapeUnpoolStep
    \/ ShapePoolUnpoolStep
    \/ ShapeUnpoolPoolStep

SpecShapeLaw == InitShapeLaw /\ [][NextShapeLaw]_vars

\* MaxUnpoolingProp::InferShape on argument shapes of any rank.
RankShapes ==
    {<<>>} \cup UNION {[1 .. r -> 1 .. MaxRankDim] : r \in {3, 4, 5}}

InitUnpoolShape ==
    /\ pc = "u_start"
    /\ uparam \in [kernel : Pairs(1 .. MaxKernel), stride : UniformStrides,
                   pad : Pairs(0 .. MaxPad),
                   unpool_size : {<<0, 0>>, <<MaxRankDim, MaxRankDim>>},
                   num_args : 1 .. MaxShapeArgs]
    /\ in_shape \in [1 .. uparam.num_args -> RankShapes]
    /\ out_shape = <<>>
    /\ param = [kernel |-> uparam.kernel, stride |-> uparam.stride, pad |-> uparam.pad]
    /\ data = NoTensor /\ pooled = NoTensor /\ mask = NoTensor
    /\ out_grad = NoTensor /\ in_grad = NoTensor
    /\ uout = NoTensor /\ mask_grad = NoTensor
    /\ req = <<>>

NextUnpoolShape == UnpoolInferShapeStep

SpecUnpoolShape == InitUnpoolShape /\ [][NextUnpoolShape]_vars

\* ------------------------------------------------------------ pooling claims

\* The zero-padded input at a position given in the coordinates of the padded
\* frame: 0 at every position outside the input.
DataPadded(pos) ==
    LET c == <<pos[1] - param.pad[1], pos[2] - param.pad[2]>>
    IN  IF c \in Cells(data.h, data.w) THEN data.v[c] ELSE 0

\* The window of output cell q: the whole kernel rectangle at q * stride, in
\* the coordinates of the padded frame.  It may reach past the frame; every
\* position outside the input counts as 0 (DataPadded).
Window(q) ==
    ((q[1] * param.stride[1]) .. ((q[1] * param.stride[1]) + param.kernel[1] - 1))
        \X ((q[2] * param.stride[2]) .. ((q[2] * param.stride[2]) + param.kernel[2] - 1))

RowMajorBefore(a, b) == a[1] < b[1] \/ (a[1] = b[1] /\ a[2] < b[2])

\* The position of the padded frame that mask[q] names.
Named(q) == MaskDecode(q, mask.v[q], param.kernel[2], param.stride[1])

\* The output cells whose mask names input cell x.
Selectors(x) ==
    {q \in Cells(mask.h, mask.w) :
        Named(q) = <<x[1] + param.pad[1], x[2] + param.pad[2]>>}

PoolRan == pc \in {"forwarded", "done"}

BackwardWrote == pc = "done" /\ req = <<kWriteTo>>

\* C1: after Forward every pooled cell holds the zero-padded input at the
\* window position its mask entry names, and that position is the first one
\* of the window, in row-major order, that attains the window's maximum, the
\* window being the kernel rectangle with 0 at every position outside the
\* input.
C1_ArgmaxFidelity ==
    PoolRan =>
        \A q \in Cells(pooled.h, pooled.w) :
            /\ Named(q) \in Window(q)
            /\ pooled.v[q] = DataPadded(Named(q))
            /\ \A pos \in Window(q) :
                  /\ DataPadded(pos) <= DataPadded(Named(q))
                  /\ RowMajorBefore(pos, Named(q)) => DataPadded(pos) < DataPadded(Named(q))

\* C2: Backward gives every input position that no mask entry names the
\* gradient 0, and routes a unit gradient at one output cell to the input
\* position that cell's mask entry names.
C2_RoutedByMask ==
    BackwardWrote =>
        \A x \in Cells(data.h, data.w) :
            /\ Selectors(x) = {} => in_grad.v[x] = 0
            /\ \A c \in Selectors(x) : out_grad = OneHot(pooled.h, pooled.w, c)
                                         => in_grad.v[x] = 1

\* C3, on its configurations without padding: with stride == kernel the
\* elements of d_data sum to the sum of the elements of d_pooled.
C3_GradientConserved ==
    (/\ BackwardWrote
     /\ param.stride = param.kernel
     /\ param.pad = <<0, 0>>)
        => TensorSum(in_grad) = TensorSum(out_grad)

\* C4: with stride < kernel an input position that the masks of k output
\* cells name receives exactly the sum of those k cells' gradients.
C4_GradientAccumulated ==
    (/\ BackwardWrote
     /\ (param.stride[1] < param.kernel[1] \/ param.stride[2] < param.kernel[2]))
        => \A x \in Cells(data.h, data.w) :
              Selectors(x) # {} =>
                  in_grad.v[x] = SumOver([q \in Selectors(x) |-> out_grad.v[q]],
                                         Selectors(x))

\* ---------------------------------------------------------- unpooling claims

UnpoolRan == pc \in {"u_forwarded", "u_done"}

\* The position of the unpooling output that mask[q] names.
NamedU(q) == MaskDecode(q, mask.v[q], uparam.kernel[2], uparam.stride[1])

NamedPositions == {NamedU(q) : q \in Cells(mask.h, mask.w)}

\* C5: with pad = (0,0), unpooling the pooled tensor with its mask and the
\* same kernel and stride gives the pooled input X at every position that a
\* mask entry names, and 0 at every other position.
C5_RoundTrip ==
    UnpoolRan =>
        \A x \in Cells(uout.h, uout.w) :
            uout.v[x] = IF x \in NamedPositions THEN data.v[x] ELSE 0

\* A round trip over overlapping windows in which two mask entries name the
\* same position, the value there is not 0, and a position is left unnamed.
C5_Witness ==
    /\ UnpoolRan
    /\ param.stride[2] < param.kernel[2]
    /\ \E q1, q2 \in Cells(mask.h, mask.w) :
          /\ q1 # q2
          /\ NamedU(q1) = NamedU(q2)
          /\ NamedU(q1) \in Cells(uout.h, uout.w)
          /\ uout.v[NamedU(q1)] # 0
    /\ \E x \in Cells(uout.h, uout.w) \cap Cells(data.h, data.w) :
          x \notin NamedPositions /\ data.v[x] # 0

\* C6: after an unpooling Backward in which the gradient of the mask is
\* requested, the mask gradient is the zero tensor of the mask's shape,
\* whatever is requested for the data gradient.
C6_MaskGradZero ==
    (pc = "u_done" /\ req[2] # kNullOp) => mask_grad = ConstTensor(mask.h, mask.w, 0)

\* ------------------------------------------------------ shape and plan claims

\* The case of the shape law: uniform stride, no padding (unpool_size is
\* unset in every state of the shape specification).
LawCase == param.stride[1] = param.stride[2] /\ param.pad = <<0, 0>>

\* Axis j (2 or 3) of the shape InferShape started from and of its result.
InDim(j) == Dim(in_shape[1], j)

OutDim(j) == Dim(out_shape[1], j)

Aligned(j) == (InDim(j) - param.kernel[j - 1]) % param.stride[j - 1] = 0

\* C7 as stated: pooling the derived unpool dimension of h gives h, and the
\* derived unpool dimension of the pooled dimension of H >= kernel gives H.
C7_ShapeInverse ==
    LawCase =>
        \A j \in {2, 3} :
            /\ pc = "s_unpool_pool" => OutDim(j) = InDim(j)
            /\ (pc = "s_pool_unpool" /\ InDim(j) >= param.kernel[j - 1])
                   => OutDim(j) = InDim(j)

\* C7 as amended: pooling the derived unpool dimension of h gives h, and the
\* derived unpool dimension of the pooled dimension of H >= kernel gives H
\* exactly when stride divides H - kernel.
C7_ShapeInverseAligned ==
    LawCase =>
        \A j \in {2, 3} :
            /\ pc = "s_unpool_pool" => OutDim(j) = InDim(j)
            /\ (pc = "s_pool_unpool" /\ InDim(j) >= param.kernel[j - 1])
                   => (OutDim(j) = InDim(j) <=> Aligned(j))

\* Both directions of the law on a kernel and a stride above 1: an aligned
\* dimension above the kernel that pooling and then unpooling returns.
C7_Witness ==
    /\ LawCase
    /\ pc = "s_pool_unpool"
    /\ param.kernel[1] > 1 /\ param.stride[1] > 1
    /\ InDim(2) > param.kernel[1] /\ Aligned(2) /\ OutDim(2) = InDim(2)
    /\ InDim(3) > param.kernel[2] /\ ~Aligned(3) /\ OutDim(3) # InDim(3)

\* C8, on the configurations in which the kernel exceeds the padded input by
\* less than the stride (no difference of InferShape goes below zero): pooling
\* shape inference does not return an output shape when the kernel exceeds the
\* padded input on either axis.
C8_KernelTooLargeRejected ==
    pc = "s_pooled" =>
        \A j \in {2, 3} :
            \/ param.kernel[j - 1] <= InDim(j) + 2 * param.pad[j - 1]
            \/ param.kernel[j - 1] >= InDim(j) + 2 * param.pad[j - 1] + param.stride[j - 1]

\* The configurations Forward accepts.
PoolConfigValid == param.stride[1] = param.stride[2]

UnpoolConfigValid ==
    /\ uparam.stride[1] = uparam.stride[2]
    /\ uparam.pad = <<0, 0>>

\* C9 as stated: Forward and Backward are never entered with a non-uniform
\* stride or, for unpooling, a non-zero pad.
C9_RejectedBeforeForward ==
    /\ pc \in {"forwarded", "fwd_abort", "done"} => PoolConfigValid
    /\ pc \in {"u_forwarded", "u_fwd_abort", "u_done"} => UnpoolConfigValid

\* C9 as amended: such a configuration is rejected no later than by the
\* checks at the start of Forward: a Forward that ran its body, and a
\* Backward, had a uniform stride and, for unpooling, a zero pad, and a
\* Forward that aborted wrote no output.
C9_RejectedByForwardChecks ==
    /\ pc \in {"forwarded", "done"} => PoolConfigValid
    /\ pc \in {"u_forwarded", "u_done"} => UnpoolConfigValid
    /\ pc = "fwd_abort" => (pooled = NoTensor /\ mask = NoTensor)
    /\ pc = "u_fwd_abort" => uout = NoTensor

\* Forward of the unpooling operator entered with two inputs, a uniform
\* stride and a non-zero pad, and aborted.
C9_Witness ==
    /\ pc = "u_fwd_abort"
    /\ uparam.num_args = 2
    /\ uparam.stride[1] = uparam.stride[2]
    /\ uparam.pad # <<0, 0>>
    /\ Dim(out_shape[1], 2) > 0
    /\ Dim(out_shape[1], 3) > 0

\* C10, on arguments of rank 4 or more (InferShape reads no dimension past
\* the end of a shape): unpooling shape inference ends in an error, with no
\* output shape, when the first shape's rank is not 4 or a further argument's
\* known shape differs from the first shape in rank or in a dimension.
ShapeMismatch ==
    \/ Len(in_shape[1]) # 4
    \/ \E i \in 2 .. Len(in_shape) : in_shape[i] # <<>> /\ in_shape[i] # in_shape[1]

C10_MismatchRejected ==
    (/\ pc \in {"u_planned", "u_shape_unknown", "u_shape_error"}
     /\ \A i \in 2 .. Len(in_shape) : Len(in_shape[i]) >= 4
     /\ ShapeMismatch)
        => (pc = "u_shape_error" /\ out_shape = <<>>)

\* ------------------------------------------------------------ storage claims

BackwardEntered == pc \in {"b_ready", "ub_ready"}

\* C11 as stated: a Backward call leaves every input tensor it is given (data,
\* pooled, mask, upstream gradient) with the values it had before the call.
C11_InputsNeverMutated ==
    [][BackwardEntered =>
          (data' = data /\ pooled' = pooled /\ mask' = mask /\ out_grad' = out_grad)]_vars

\* C11 as amended: a Backward call leaves the mask, the upstream gradient and
\* the pooling output it reads unchanged; it leaves its data input unchanged
\* unless in_grad[kData] was assigned the storage of in_data[kData], and then
\* that storage holds the data gradient after the call, which is the gradient
\* the call computes on separate storage.
C11_InputsKeptUnlessShared ==
    [][/\ pc = "b_ready" =>
            /\ pooled' = pooled /\ mask' = mask /\ out_grad' = out_grad
            /\ req[1] # kWriteInplace => data' = data
            /\ req[1] = kWriteInplace =>
                  /\ data' = in_grad'
                  /\ in_grad' = BackwardGrad(data, pooled, out_grad, param)
       /\ pc = "ub_ready" =>
            /\ data' = data /\ mask' = mask /\ out_grad' = out_grad
            /\ req[1] # kWriteInplace => pooled' = pooled
            /\ req[1] = kWriteInplace =>
                  /\ pooled' = in_grad'
                  /\ \E oob \in Values :
                        in_grad' = UnpoolBackwardGrad(mask, out_grad, uparam, oob)
      ]_vars

\* A pooling Backward over a padded input of several cells that wrote a
\* gradient other than the data into the storage of the data.
C11_Witness ==
    /\ pc = "done"
    /\ req = <<kWriteInplace>>
    /\ param.pad = <<1, 1>>
    /\ data.h > 1 /\ data.w > 1
    /\ data = in_grad
    /\ TensorSum(out_grad) > 1
    /\ TensorSum(in_grad) > 1

\* ------------------------------------------------------------ gather claims

\* C12: after an unpooling Backward that writes the data gradient, d_data has
\* the shape of the forward data input, and at every cell of the mask's shape
\* whose mask entry names a position of d_out it holds d_out at that position.
C12_GatherByMask ==
    (pc = "u_done" /\ req[1] \in {kWriteTo, kWriteInplace}) =>
        /\ in_grad.h = Dim(in_shape[1], 2)
        /\ in_grad.w = Dim(in_shape[1], 3)
        /\ \A q \in Cells(mask.h, mask.w) :
              NamedU(q) \in Cells(out_grad.h, out_grad.w)
                  => in_grad.v[q] = out_grad.v[NamedU(q)]

\* A gather through a kernel that is not square, from a gradient with a
\* distinct value at every cell, in which two mask entries differ and every
\* named position lies in the gradient.
C12_Witness ==
    /\ pc = "u_done"
    /\ req[1] = kWriteTo
    /\ uparam.kernel[1] # uparam.kernel[2]
    /\ out_grad = Ramp(uout.h, uout.w)
    /\ \A q \in Cells(mask.h, mask.w) : NamedU(q) \in Cells(out_grad.h, out_grad.w)
    /\ \E q1, q2 \in Cells(mask.h, mask.w) :
          /\ mask.v[q1] > 0
          /\ mask.v[q1] # mask.v[q2]
          /\ in_grad.v[q1] # in_grad.v[q2]

\* ------------------------------------------------- arity and bounds claims

\* C13, on the configurations whose stride and pad Forward accepts: an
\* unpooling Forward entered after a successful InferShape does not abort,
\* that is, every num_args that InferShape succeeded with is the two inputs
\* [data, mask] Forward checks for.
C13_ArityConsistent ==
    (pc = "u_fwd_abort" /\ UnpoolConfigValid) => uparam.num_args = 2

\* C14: after pooling with pad = (0,0) and an unpooling Forward with the same
\* kernel and stride on a target InferShape accepted, derived or given, every
\* position a mask entry names lies inside the output.
C14_ScatterInBounds ==
    UnpoolRan =>
        \A q \in Cells(mask.h, mask.w) : NamedU(q) \in Cells(uout.h, uout.w)

====
